---- MODULE Spec2Model ----
(***************************************************************************)
(* Model of the line-oriented batch editor of code-editing-agent           *)
(* (main.go): EditFile and the document operations it dispatches to, and   *)
(* the windowed reader ReadLines; and of the conversation loop Agent.Run    *)
(* with its tool dispatch executeTool.                                     *)
(*                                                                         *)
(* A Go string is a sequence of one-character strings, so that splitting,  *)
(* joining and substring replacement are computed and not assumed.  A Go   *)
(* slice is a sequence; Make and Copy are the built-ins make and copy.     *)
(*                                                                         *)
(* One behaviour is one invocation of the tool function on a file system   *)
(* drawn by Init: the tool keeps no state between calls, each call reads   *)
(* the file again.                                                         *)
(***************************************************************************)
EXTENDS Integers, Sequences, FiniteSets, TLC

\* ------------------------------------------------------------------ bounds

\* The longest batch a call is given.
MaxOps == 2

\* The most inferences a run of the agent makes.
MaxInferences == 2

\* ---------------------------------------------------------------- strings

NL == "\n"

\* strings.Index(s, sub), 0-based, -1 when sub does not occur; from is the
\* 0-based offset the search starts at (s[from:]), the result is relative to it.
OccursAt(s, sub, i) ==
    /\ i + Len(sub) <= Len(s)
    /\ \A k \in 1..Len(sub) : s[i + k] = sub[k]

IndexFrom(s, sub, from) ==
    LET hits == {i \in from..Len(s) : OccursAt(s, sub, i)}
    IN  IF hits = {} THEN -1
        ELSE (CHOOSE i \in hits : \A j \in hits : i <= j) - from

\* strings.Count(s, sub): the number of non-overlapping instances of sub in
\* s; for an empty sub, one more than the number of characters.
RECURSIVE CountFrom(_, _, _)
CountFrom(s, sub, from) ==
    LET j == IndexFrom(s, sub, from)
    IN  IF j = -1 THEN 0 ELSE 1 + CountFrom(s, sub, from + j + Len(sub))

StringsCount(s, sub) ==
    IF Len(sub) = 0 THEN Len(s) + 1 ELSE CountFrom(s, sub, 0)

\* The replacement loop of strings.Replace: i counts the replacements made,
\* start is the 0-based offset of the unread rest, b the builder.
RECURSIVE ReplaceLoop(_, _, _, _, _, _, _)
ReplaceLoop(s, old, new, n, i, start, b) ==
    IF i >= n
    THEN b \o SubSeq(s, start + 1, Len(s))
    ELSE LET j == IF Len(old) = 0
                  THEN (IF i > 0 THEN start + 1 ELSE start)
                  ELSE start + IndexFrom(s, old, start)
         IN  ReplaceLoop(s, old, new, n, i + 1, j + Len(old),
                         b \o SubSeq(s, start + 1, j) \o new)

\* strings.Replace(s, old, new, n)
StringsReplace(s, old, new, n) ==
    IF old = new \/ n = 0 THEN s
    ELSE LET m == StringsCount(s, old)
         IN  IF m = 0 THEN s
             ELSE ReplaceLoop(s, old, new,
                              IF n < 0 \/ m < n THEN m ELSE n, 0, 0, <<>>)

\* strings.Split(s, "\n")
RECURSIVE StringsSplit(_)
StringsSplit(s) ==
    LET m == IndexFrom(s, <<NL>>, 0)
    IN  IF m = -1 THEN <<s>>
        ELSE <<SubSeq(s, 1, m)>> \o StringsSplit(SubSeq(s, m + 2, Len(s)))

\* strings.Join(elems, "\n")
RECURSIVE StringsJoin(_)
StringsJoin(elems) ==
    IF Len(elems) = 0 THEN <<>>
    ELSE IF Len(elems) = 1 THEN elems[1]
    ELSE elems[1] \o <<NL>> \o StringsJoin(Tail(elems))

\* ----------------------------------------------------------------- slices

\* make([]string, n): n empty strings.
Make(n) == [i \in 1..n |-> <<>>]

\* copy(dst[off:], src): min(len(dst) - off, len(src)) elements are copied.
Copy(dst, off, src) ==
    [i \in 1..Len(dst) |->
        IF i > off /\ i - off <= Len(src) THEN src[i - off] ELSE dst[i]]

\* s[lo:hi] of a slice, 0-based and half-open.
Slice(s, lo, hi) == SubSeq(s, lo + 1, hi)

Max(a, b) == IF a >= b THEN a ELSE b

\* ------------------------------------------------------------- the errors

Nil == "nil"
ErrOutOfBounds == "line number out of bounds"
ErrCount == "count must be greater than 0"
ErrInvalidInput == "invalid input parameters"
ErrNoContent == "no new content provided"
ErrInvalidOp == "invalid operation type"
ErrNotExist == "no such file or directory"
ErrInvalidLines == "invalid line numbers"
ErrStartBeyond == "start line beyond file length"
ErrEndBeyond == "end line beyond file length"
ErrJSON == "json: cannot unmarshal"

\* --------------------------------------------------- document operations
\* Each takes the document (*content) and returns the error and the
\* document it leaves in *content.

\* replaceLine with the rest copied from the replaced line on, not from the
\* line after it.
replaceLineKeepingLine(content, lineNumber, newContent) ==
    IF lineNumber < 1 \/ lineNumber > Len(content)
    THEN [err |-> ErrOutOfBounds, content |-> content]
    ELSE LET index == lineNumber - 1
             r0 == Make(Len(content) + Len(newContent) - 1)
             r1 == Copy(r0, 0, Slice(content, 0, index))
             r2 == Copy(r1, index, newContent)
             r3 == Copy(r2, index + Len(newContent),
                        Slice(content, index, Len(content)))
         IN  [err |-> Nil, content |-> r3]

replaceLine(content, lineNumber, newContent) ==
    IF lineNumber < 1 \/ lineNumber > Len(content)
    THEN [err |-> ErrOutOfBounds, content |-> content]
    ELSE LET index == lineNumber - 1
             r0 == Make(Len(content) + Len(newContent) - 1)
             r1 == Copy(r0, 0, Slice(content, 0, index))
             r2 == Copy(r1, index, newContent)
             r3 == Copy(r2, index + Len(newContent),
                        Slice(content, index + 1, Len(content)))
         IN  [err |-> Nil, content |-> r3]

\* insertLineBefore copying the rest of the document from the line itself
\* and not from the index of the insertion.
insertLineBeforeLosingLines(content, lineNumber, newContent) ==
    IF lineNumber < 1 \/ lineNumber > Len(content)
    THEN [err |-> ErrOutOfBounds, content |-> content]
    ELSE LET r0 == Make(Len(content) + Len(newContent))
             insertLine == Max(lineNumber - Len(newContent), 0)
             r1 == Copy(r0, 0, Slice(content, 0, insertLine))
             r2 == Copy(r1, insertLine, newContent)
             r3 == Copy(r2, insertLine + Len(newContent),
                        Slice(content, lineNumber - 1, Len(content)))
         IN  [err |-> Nil, content |-> r3]

\* insertLineBefore with the new lines at the 0-based index of the line.
insertLineBeforeAtLine(content, lineNumber, newContent) ==
    IF lineNumber < 1 \/ lineNumber > Len(content)
    THEN [err |-> ErrOutOfBounds, content |-> content]
    ELSE LET r0 == Make(Len(content) + Len(newContent))
             insertLine == lineNumber - 1
             r1 == Copy(r0, 0, Slice(content, 0, insertLine))
             r2 == Copy(r1, insertLine, newContent)
             r3 == Copy(r2, insertLine + Len(newContent),
                        Slice(content, insertLine, Len(content)))
         IN  [err |-> Nil, content |-> r3]

\* insertLineBefore with a bounds check that lets line number 0 through.
insertLineBeforeFromZero(content, lineNumber, newContent) ==
    IF lineNumber < 0 \/ lineNumber > Len(content)
    THEN [err |-> ErrOutOfBounds, content |-> content]
    ELSE LET r0 == Make(Len(content) + Len(newContent))
             insertLine == Max(lineNumber - Len(newContent), 0)
             r1 == Copy(r0, 0, Slice(content, 0, insertLine))
             r2 == Copy(r1, insertLine, newContent)
             r3 == Copy(r2, insertLine + Len(newContent),
                        Slice(content, insertLine, Len(content)))
         IN  [err |-> Nil, content |-> r3]

insertLineBefore(content, lineNumber, newContent) ==
    IF lineNumber < 1 \/ lineNumber > Len(content)
    THEN [err |-> ErrOutOfBounds, content |-> content]
    ELSE LET r0 == Make(Len(content) + Len(newContent))
             insertLine == Max(lineNumber - Len(newContent), 0)
             r1 == Copy(r0, 0, Slice(content, 0, insertLine))
             r2 == Copy(r1, insertLine, newContent)
             r3 == Copy(r2, insertLine + Len(newContent),
                        Slice(content, insertLine, Len(content)))
         IN  [err |-> Nil, content |-> r3]

\* insertLineAfter with the 0-based index of the line itself as the place of
\* the insertion.
insertLineAfterAtLine(content, lineNumber, newContent) ==
    IF lineNumber < 1 \/ lineNumber > Len(content)
    THEN [err |-> ErrOutOfBounds, content |-> content]
    ELSE LET r0 == Make(Len(content) + Len(newContent))
             r1 == Copy(r0, 0, Slice(content, 0, lineNumber - 1))
             r2 == Copy(r1, lineNumber - 1, newContent)
             r3 == Copy(r2, lineNumber - 1 + Len(newContent),
                        Slice(content, lineNumber - 1, Len(content)))
         IN  [err |-> Nil, content |-> r3]

insertLineAfter(content, lineNumber, newContent) ==
    IF lineNumber < 1 \/ lineNumber > Len(content)
    THEN [err |-> ErrOutOfBounds, content |-> content]
    ELSE LET r0 == Make(Len(content) + Len(newContent))
             r1 == Copy(r0, 0, Slice(content, 0, lineNumber))
             r2 == Copy(r1, lineNumber, newContent)
             r3 == Copy(r2, lineNumber + Len(newContent),
                        Slice(content, lineNumber, Len(content)))
         IN  [err |-> Nil, content |-> r3]

\* slices.Delete(s, i, j): s[:i] followed by s[j:].
SlicesDelete(s, i, j) == Slice(s, 0, i) \o Slice(s, j, Len(s))

\* deleteLine with the 1-based line number used as the 0-based index.
deleteLineAtNumber(content, lineNumber) ==
    IF lineNumber < 1 \/ lineNumber > Len(content)
    THEN [err |-> ErrOutOfBounds, content |-> content]
    ELSE [err |-> Nil,
          content |-> SlicesDelete(content, lineNumber, lineNumber + 1)]

deleteLine(content, lineNumber) ==
    IF lineNumber < 1 \/ lineNumber > Len(content)
    THEN [err |-> ErrOutOfBounds, content |-> content]
    ELSE [err |-> Nil,
          content |-> SlicesDelete(content, lineNumber - 1, lineNumber)]

\* replaceStringInLine with count ignored: every occurrence is replaced.
replaceStringInLineAll(content, lineNumber, oldString, newString, count) ==
    IF lineNumber < 1 \/ lineNumber > Len(content)
    THEN [err |-> ErrOutOfBounds, content |-> content]
    ELSE LET newLine == StringsReplace(content[lineNumber], oldString,
                                       newString, -1)
         IN  [err |-> Nil,
              content |-> [content EXCEPT ![lineNumber] = newLine]]

replaceStringInLine(content, lineNumber, oldString, newString, count) ==
    IF lineNumber < 1 \/ lineNumber > Len(content)
    THEN [err |-> ErrOutOfBounds, content |-> content]
    ELSE LET newLine == StringsReplace(content[lineNumber], oldString,
                                       newString, count)
         IN  [err |-> Nil,
              content |-> [content EXCEPT ![lineNumber] = newLine]]

\* appendToFile replacing the document by the new content.
appendToFileTruncating(content, newContent) ==
    [err |-> Nil, content |-> newContent]

appendToFile(content, newContent) ==
    [err |-> Nil, content |-> content \o newContent]

\* ------------------------------------------------------------- the inputs

ReplaceLineOp == "replace_line"
InsertLineBeforeOp == "insert_line_before"
InsertLineAfterOp == "insert_line_after"
DeleteLineOp == "delete_line"
ReplaceStringInLineOp == "replace_string_in_line"
AppendToFileOp == "append_to_file"
UnknownOp == "invalid_operation_type"

\* The value of the new_content field on the wire: absent, one string, or
\* an array of strings.
RawContents ==
    { [kind |-> "absent", str |-> <<>>, arr |-> <<>>],
      [kind |-> "string", str |-> <<"B">>, arr |-> <<>>],
      [kind |-> "array", str |-> <<>>, arr |-> <<>>],
      [kind |-> "array", str |-> <<>>, arr |-> << <<"B">> >>],
      [kind |-> "array", str |-> <<>>, arr |-> << <<"x">>, <<"y">> >>] }

\* UnmarshalJSON that does not store the list of one it makes of a string.
UnmarshalJSONDroppingString(raw) ==
    IF raw.kind = "string" THEN <<>>
    ELSE IF raw.kind = "array" THEN raw.arr
    ELSE <<>>

\* StringOrStringArray.UnmarshalJSON; an absent field is never unmarshalled
\* and leaves the nil slice.
UnmarshalJSON(raw) ==
    IF raw.kind = "string" THEN << raw.str >>
    ELSE IF raw.kind = "array" THEN raw.arr
    ELSE <<>>

Contents == {UnmarshalJSON(raw) : raw \in RawContents}

LineNumbers == 0..3
\* The line numbers an append_to_file carries: none, and one that is out of
\* range of the shorter documents.
AppendLineNumbers == {0, 3}
OldStrings == {<<>>, <<"a">>, <<"a", "a">>}
NewStrings == {<<"b">>}
\* The Count of an operation whose JSON has no count: the zero value.
OmittedCount == 0
Counts == {-1, OmittedCount, 1, 2}

\* The Edit struct; a field the JSON omits holds its zero value.
Edit(t, n, c, o, s, k) ==
    [OperationType |-> t, LineNumber |-> n, NewContent |-> c,
     OldString |-> o, NewString |-> s, Count |-> k]

EditInputs ==
    {Edit(t, n, c, <<>>, <<>>, 0) :
        t \in {ReplaceLineOp, InsertLineBeforeOp, InsertLineAfterOp},
        n \in LineNumbers, c \in Contents}
    \cup {Edit(DeleteLineOp, n, <<>>, <<>>, <<>>, 0) : n \in LineNumbers}
    \cup {Edit(ReplaceStringInLineOp, n, <<>>, o, s, k) :
            n \in LineNumbers, o \in OldStrings, s \in NewStrings, k \in Counts}
    \cup {Edit(AppendToFileOp, n, c, <<>>, <<>>, 0) :
            n \in AppendLineNumbers, c \in Contents}
    \cup {Edit(UnknownOp, 0, <<>>, <<>>, <<>>, 0)}

\* A path is a string; the empty path is the empty string.
EmptyPath == <<>>
TargetPaths ==
    { <<"y", ".", "t", "x", "t">>,
      <<"x", "/", "y", ".", "t", "x", "t">> }

\* Paths with a character that a JSON string cannot hold as it is: a double
\* quote, and a backslash before a character that is no escape.
UnsafePaths ==
    { <<"x", "\"", "y", ".", "t", "x", "t">>,
      <<"x", "\\", "y", ".", "t", "x", "t">> }

\* path.Dir of a path without a trailing slash: the path up to its last
\* slash, "." when it has none.
Dir(filePath) ==
    LET slashes == {i \in 1..Len(filePath) : filePath[i] = "/"}
    IN  IF slashes = {} THEN <<".">>
        ELSE SubSeq(filePath, 1,
                    (CHOOSE i \in slashes : \A j \in slashes : j <= i) - 1)

\* The bytes a file may hold before the call.
InitContents ==
    { <<>>,
      <<"a", NL, "b", NL, "c">>,
      <<"a", "a", "a", NL, "b", NL>> }

\* The start_line and end_line a read_lines call is given.
LineArgs == 0..5

\* ------------------------------------------------------------ the scanner

\* dropCR of bufio: a token loses one trailing carriage return.
DropCR(data) ==
    IF Len(data) > 0 /\ data[Len(data)] = "\r"
    THEN SubSeq(data, 1, Len(data) - 1)
    ELSE data

\* scanner.Scan() with the split function bufio.ScanLines on the unread
\* bytes of a file: ok says whether there is a token, token is
\* scanner.Text(), rest the bytes left.  A line ends at a newline or at the
\* end of the file; after the last newline there is no further token.
ScanLines(data) ==
    IF Len(data) = 0
    THEN [ok |-> FALSE, token |-> <<>>, rest |-> <<>>]
    ELSE LET i == IndexFrom(data, <<NL>>, 0)
         IN  IF i >= 0
             THEN [ok |-> TRUE, token |-> DropCR(SubSeq(data, 1, i)),
                   rest |-> SubSeq(data, i + 2, Len(data))]
             ELSE [ok |-> TRUE, token |-> DropCR(data), rest |-> <<>>]

\* The verb %d of fmt on a number that is not negative.
Digits == <<"0", "1", "2", "3", "4", "5", "6", "7", "8", "9">>
RECURSIVE Itoa(_)
Itoa(n) ==
    IF n < 10 THEN <<Digits[n + 1]>>
    ELSE Itoa(n \div 10) \o <<Digits[(n % 10) + 1]>>

\* fmt.Sprintf("<line-%d>%s</line-%d>", lineNum, text, lineNum)
Sprintf(lineNum, text) ==
    <<"<", "l", "i", "n", "e", "-">> \o Itoa(lineNum) \o <<">">> \o text
        \o <<"<", "/", "l", "i", "n", "e", "-">> \o Itoa(lineNum) \o <<">">>

\* json.Marshal of a []string: an array of string literals, in which the
\* encoder escapes the quote, the backslash, the carriage return and, for
\* HTML, the angle brackets.
JsonEscape(ch) ==
    IF ch = "<" THEN <<"\\", "u", "0", "0", "3", "c">>
    ELSE IF ch = ">" THEN <<"\\", "u", "0", "0", "3", "e">>
    ELSE IF ch = "\"" THEN <<"\\", "\"">>
    ELSE IF ch = "\\" THEN <<"\\", "\\">>
    ELSE IF ch = "\r" THEN <<"\\", "r">>
    ELSE <<ch>>

RECURSIVE JsonChars(_)
JsonChars(s) ==
    IF s = <<>> THEN <<>> ELSE JsonEscape(Head(s)) \o JsonChars(Tail(s))

JsonString(s) == <<"\"">> \o JsonChars(s) \o <<"\"">>

RECURSIVE JsonItems(_)
JsonItems(ls) ==
    IF ls = <<>> THEN <<>>
    ELSE IF Len(ls) = 1 THEN JsonString(ls[1])
    ELSE JsonString(ls[1]) \o <<",">> \o JsonItems(Tail(ls))

JsonMarshal(ls) == <<"[">> \o JsonItems(ls) \o <<"]">>

\* ------------------------------------------------------- the file system
\* The target file and its parent directory: exists and data are the file,
\* dir says whether the parent directory exists.

\* os.ReadFile
OsReadFile(f) ==
    IF f.exists THEN [content |-> f.data, err |-> Nil]
    ELSE [content |-> <<>>, err |-> ErrNotExist]

\* os.WriteFile on a path whose directory exists: creates or truncates.
OsWriteFile(f, data) == [f EXCEPT !.exists = TRUE, !.data = data]

\* os.MkdirAll
OsMkdirAll(f) == [f EXCEPT !.dir = TRUE]

createNewFile(f, filePath, content) ==
    LET dir == Dir(filePath)
        made == IF dir # <<".">> THEN OsMkdirAll(f) ELSE f
    IN  OsWriteFile(made, content)

\* ------------------------------------------------------------------ agent

ToolDefinition(name, function) == [Name |-> name, Function |-> function]

\* The tools main registers, in its order.
MainTools ==
    << ToolDefinition("read_file", "ReadFile"),
       ToolDefinition("list_files", "ListFiles"),
       ToolDefinition("edit_file", "EditFile"),
       ToolDefinition("read_lines", "ReadLines") >>

\* NewAgent takes any list of tools: this one registers, after main's tools,
\* a second tool with the name of an earlier one and another function.
ShadowingTools == Append(MainTools, ToolDefinition("read_lines", "ReadFile"))

ToolRegistries == {MainTools, ShadowingTools}

\* The tool names the model asks for; the last is registered nowhere.
RequestedNames == {"edit_file", "read_lines", "write_file"}

\* What a call of a tool function ends in.  Every tool function returns a
\* response or an error; ReadFile and ListFiles panic on an input they cannot
\* decode, and EditFile panics in its call of ReadFile; ReadLines returns the
\* error of json.Unmarshal.
Responded(response) == [kind |-> "response", text |-> response]
Erred(err) == [kind |-> "error", text |-> err]
Panicked == [kind |-> "panic", text |-> ""]
NotCalled == [kind |-> "none", text |-> ""]
FunctionOutcomes(function) ==
    {Responded(IF function = "EditFile" THEN "OK" ELSE "[]"),
     Erred(ErrNotExist)}
    \cup (IF function = "ReadLines" THEN {} ELSE {Panicked})

\* Content blocks and messages.
TextBlock(text) == [Type |-> "text", Text |-> text]
ToolUseBlock(id, name) == [Type |-> "tool_use", ID |-> id, Name |-> name]
ToolResultBlock(id, content, isError) ==
    [Type |-> "tool_result", ToolUseID |-> id, Content |-> content,
     IsError |-> isError]
UserMessage(blocks) == [Role |-> "user", Content |-> blocks]
AssistantMessage(blocks) == [Role |-> "assistant", Content |-> blocks]

\* What the user types, and the error of a failed inference.
UserInputs == {"hi"}
ErrInference == "inference failed"

\* The content of the model's message of inference k: up to two blocks, each
\* a text or a tool_use; the ID of a tool_use block is its own.
BlocksPerMessage == 0..2
ModelMessages(k) ==
    { [i \in 1..Len(kinds) |->
          IF kinds[i] = "text" THEN TextBlock("hello")
          ELSE ToolUseBlock(<<k, i>>, kinds[i])] :
      kinds \in UNION {[1..n -> {"text"} \cup RequestedNames] :
                         n \in BlocksPerMessage} }

\* executeTool's search of a.tools: the index of the tool found, 0 for none.
RECURSIVE FindToolFrom(_, _, _)
FindToolFrom(ts, name, i) ==
    IF i > Len(ts) THEN 0
    ELSE IF ts[i].Name = name THEN i
    ELSE FindToolFrom(ts, name, i + 1)

\* The search without its break: the last tool of the name.
FindToolLast(ts, name) ==
    LET hits == {i \in 1..Len(ts) : ts[i].Name = name}
    IN  IF hits = {} THEN 0 ELSE CHOOSE i \in hits : \A j \in hits : j <= i

FindTool(ts, name) == FindToolFrom(ts, name, 1)

\* ------------------------------------------------------------------ state

VARIABLES
    target,            \* the path of the file the call is about
    fs,                \* the file system at target
    pc,                \* "idle", "loop" (EditFile before an iteration),
                       \* "scan" (ReadLines before a scanner.Scan), "done",
                       \* "panic" (the call ended in a panic)
    path,              \* editFileInput.Path
    nEdits,            \* len(editFileInput.Edits)
    edits,             \* editFileInput.Edits, as far as the call has read it
    operationCounter,
    lines,
    result,            \* what the call returned: [ret, err]
    fs0,               \* the file system when the call was made
    doc0,              \* lines as loaded, before the loop
    prevLines,         \* lines before the last iteration of the loop
    writeLog,          \* the writes of the call to the target, in order
    tool,              \* the tool function called: "edit_file", "read_lines"
    startLine,         \* readLinesInput.StartLine
    endLine,           \* readLinesInput.EndLine
    lineNum,           \* ReadLines: the number of the line the scanner is at
    window,            \* ReadLines: its local lines, the tagged lines so far
    rest,              \* ReadLines: the bytes of the file not yet scanned
    last,              \* what the last step of the call did
    tools,             \* Agent.tools
    conversation,      \* Run: the messages so far
    readUserInput,     \* Run: whether the next iteration reads the user
    runPc,             \* Run: "loop" (top of the loop), "infer" (before
                       \* runInference), "content" (before a content block
                       \* of the message), "returned", "panic"
    message,           \* Run: the content of the model's last message
    block,             \* Run: the index of the next content block
    toolResults,       \* Run: the results of the message's tools so far
    runErr,            \* what Run returned
    inferences,        \* the number of calls of runInference
    calls,             \* the calls of executeTool, in order
    step               \* what the last step of Run did

callVars == <<target, fs, pc, path, nEdits, edits, operationCounter, lines,
              result, fs0, doc0, prevLines, writeLog, last, tool, startLine,
              endLine, lineNum, window, rest>>
agentVars == <<tools, conversation, readUserInput, runPc, message, block,
               toolResults, runErr, inferences, calls, step>>
vars == <<callVars, agentVars>>

\* The variables of EditFile and those of ReadLines.
editVars == <<nEdits, edits, operationCounter, lines, doc0, prevLines,
              writeLog>>
readVars == <<startLine, endLine, lineNum, window, rest>>

\* The input EditFile builds for ReadFile: the path between the two halves of
\* a JSON object, copied as it is.
ReadFileInputFor(p) ==
    <<"{", "\"", "p", "a", "t", "h", "\"", ":", " ", "\"">> \o p \o <<"\"", "}">>

\* The characters that may follow a backslash in a JSON string, and what each
\* stands for (\u is not among the inputs).
JsonEscapes ==
    [c \in {"\"", "\\", "/", "n", "t"} |->
        IF c = "n" THEN "\n" ELSE IF c = "t" THEN "\t" ELSE c]

\* Decoding of the JSON string whose opening quote has been read, from
\* position i of data: the decoded string and the position after the closing
\* quote, or a syntax error.
RECURSIVE JsonReadString(_, _, _)
JsonReadString(data, i, acc) ==
    IF i > Len(data) THEN [ok |-> FALSE, str |-> <<>>, next |-> i]
    ELSE IF data[i] = "\"" THEN [ok |-> TRUE, str |-> acc, next |-> i + 1]
    ELSE IF data[i] = "\\"
    THEN IF i + 1 <= Len(data) /\ data[i + 1] \in DOMAIN JsonEscapes
         THEN JsonReadString(data, i + 2, Append(acc, JsonEscapes[data[i + 1]]))
         ELSE [ok |-> FALSE, str |-> <<>>, next |-> i]
    ELSE IF data[i] \in {"\n", "\t", "\r"}
    THEN [ok |-> FALSE, str |-> <<>>, next |-> i]
    ELSE JsonReadString(data, i + 1, Append(acc, data[i]))

\* json.Unmarshal of an object with the one member "path" into ReadFileInput.
JsonUnmarshalPath(data) ==
    LET head == ReadFileInputFor(<<>>)
        open == Len(head) - 2
        str == JsonReadString(data, open + 1, <<>>)
    IN  IF /\ Len(data) >= open
           /\ SubSeq(data, 1, open) = SubSeq(head, 1, open)
           /\ str.ok
           /\ SubSeq(data, str.next, Len(data)) = <<"}">>
        THEN [err |-> Nil, Path |-> str.str]
        ELSE [err |-> ErrJSON, Path |-> <<>>]

\* ReadFile on the file system f that holds the file at path `at`: it panics
\* when its input does not decode, and otherwise returns what os.ReadFile
\* returns for the decoded path.
ReadFile(f, at, input) ==
    LET readFileInput == JsonUnmarshalPath(input)
        read == IF readFileInput.Path = at THEN OsReadFile(f)
                ELSE [content |-> <<>>, err |-> ErrNotExist]
    IN  IF readFileInput.err # Nil
        THEN [panic |-> TRUE, content |-> <<>>, err |-> Nil]
        ELSE [panic |-> FALSE, content |-> read.content, err |-> read.err]

NoResult == [ret |-> <<>>, err |-> Nil]
Failed(e) == [ret |-> <<>>, err |-> e]
Ok == [ret |-> "OK", err |-> Nil]

\* A file in a directory that does not exist does not exist either, and the
\* working directory always exists.  The directory of the path matters only
\* when a missing file is created (createNewFile): an existing file is read
\* and written the same way wherever it is, so the existing files are drawn
\* at the nested path.
CallInit ==
    /\ target \in TargetPaths
    /\ fs \in {f \in [exists : BOOLEAN, data : InitContents \cup {<<>>},
                      dir : BOOLEAN] :
                 /\ f.exists => f.dir
                 /\ ~f.exists => f.data = <<>>
                 /\ Dir(target) = <<".">> => (f.dir /\ ~f.exists)}
    /\ pc = "idle"
    /\ path = EmptyPath
    /\ nEdits = 0
    /\ edits = <<>>
    /\ operationCounter = 0
    /\ lines = <<>>
    /\ result = NoResult
    /\ fs0 = fs
    /\ doc0 = <<>>
    /\ prevLines = <<>>
    /\ writeLog = <<>>
    /\ last = "none"
    /\ tool = "none"
    /\ startLine = 0
    /\ endLine = 0
    /\ lineNum = 0
    /\ window = <<>>
    /\ rest = <<>>

\* Run before its loop.
RunInit ==
    /\ conversation = <<>>
    /\ readUserInput = TRUE
    /\ runPc = "loop"
    /\ message = <<>>
    /\ block = 1
    /\ toolResults = <<>>
    /\ runErr = "none"
    /\ inferences = 0
    /\ calls = <<>>
    /\ step = "none"

Init ==
    /\ CallInit
    /\ tools = MainTools
    /\ RunInit

\* A return with an error: nothing else changes.
ReturnErr(e) ==
    /\ pc' = "done"
    /\ result' = Failed(e)

\* Dispatch without the check of Count before replaceStringInLine.
DispatchWithoutCountCheck(content, e) ==
    IF e.OperationType = ReplaceLineOp
    THEN replaceLine(content, e.LineNumber, e.NewContent)
    ELSE IF e.OperationType = InsertLineBeforeOp
    THEN insertLineBefore(content, e.LineNumber, e.NewContent)
    ELSE IF e.OperationType = InsertLineAfterOp
    THEN insertLineAfter(content, e.LineNumber, e.NewContent)
    ELSE IF e.OperationType = DeleteLineOp
    THEN deleteLine(content, e.LineNumber)
    ELSE IF e.OperationType = ReplaceStringInLineOp
    THEN replaceStringInLine(content, e.LineNumber, e.OldString,
                             e.NewString, e.Count)
    ELSE IF e.OperationType = AppendToFileOp
    THEN appendToFile(content, e.NewContent)
    ELSE [err |-> ErrInvalidOp, content |-> content]

\* Dispatch passing over an operation type it does not know.
DispatchSkippingUnknown(content, e) ==
    IF e.OperationType = ReplaceLineOp
    THEN replaceLine(content, e.LineNumber, e.NewContent)
    ELSE IF e.OperationType = InsertLineBeforeOp
    THEN insertLineBefore(content, e.LineNumber, e.NewContent)
    ELSE IF e.OperationType = InsertLineAfterOp
    THEN insertLineAfter(content, e.LineNumber, e.NewContent)
    ELSE IF e.OperationType = DeleteLineOp
    THEN deleteLine(content, e.LineNumber)
    ELSE IF e.OperationType = ReplaceStringInLineOp
    THEN IF e.Count = 0
         THEN [err |-> ErrCount, content |-> content]
         ELSE replaceStringInLine(content, e.LineNumber, e.OldString,
                             e.NewString, e.Count)
    ELSE IF e.OperationType = AppendToFileOp
    THEN appendToFile(content, e.NewContent)
    ELSE [err |-> Nil, content |-> content]

\* The switch of the loop on one operation: the error and the document.
Dispatch(content, e) ==
    IF e.OperationType = ReplaceLineOp
    THEN replaceLine(content, e.LineNumber, e.NewContent)
    ELSE IF e.OperationType = InsertLineBeforeOp
    THEN insertLineBefore(content, e.LineNumber, e.NewContent)
    ELSE IF e.OperationType = InsertLineAfterOp
    THEN insertLineAfter(content, e.LineNumber, e.NewContent)
    ELSE IF e.OperationType = DeleteLineOp
    THEN deleteLine(content, e.LineNumber)
    ELSE IF e.OperationType = ReplaceStringInLineOp
    THEN IF e.Count = 0
         THEN [err |-> ErrCount, content |-> content]
         ELSE replaceStringInLine(content, e.LineNumber, e.OldString,
                                  e.NewString, e.Count)
    ELSE IF e.OperationType = AppendToFileOp
    THEN appendToFile(content, e.NewContent)
    ELSE [err |-> ErrInvalidOp, content |-> content]

\* EditFile, the input does not unmarshal.
EditFileBadInput ==
    /\ pc = "idle"
    /\ UNCHANGED agentVars
    /\ ReturnErr(ErrJSON)
    /\ last' = "bad input"
    /\ tool' = "edit_file"
    /\ UNCHANGED <<target, fs, path, nEdits, edits, operationCounter, lines,
                   fs0, doc0, prevLines, writeLog>>
    /\ UNCHANGED readVars

\* EditFileEnter creating a missing file from the content of the first
\* operation whatever its kind.
EditFileEnterCreatingForAnyFirst ==
    /\ pc = "idle"
    /\ UNCHANGED agentVars
    /\ \E p \in {EmptyPath, target} \cup UnsafePaths, n \in 0..MaxOps,
          first \in EditInputs :
        LET batch == IF n = 0 THEN <<>> ELSE <<first>>
            read == ReadFile(fs, target, ReadFileInputFor(p))
            enter(f, counter, log) ==
                /\ pc' = "loop"
                /\ fs' = f
                /\ operationCounter' = counter
                /\ lines' = StringsSplit(read.content)
                /\ doc0' = StringsSplit(read.content)
                /\ prevLines' = StringsSplit(read.content)
                /\ writeLog' = log
                /\ last' = IF counter = 0 THEN "loaded" ELSE "created"
                /\ UNCHANGED result
            fail(e) ==
                /\ ReturnErr(e)
                /\ last' = "rejected"
                /\ UNCHANGED <<fs, operationCounter, lines, doc0, prevLines,
                               writeLog>>
            panic ==
                /\ pc' = "panic"
                /\ last' = "panicked"
                /\ UNCHANGED <<fs, operationCounter, lines, doc0, prevLines,
                               writeLog, result>>
        IN  /\ path' = p
            /\ nEdits' = n
            /\ edits' = batch
            /\ fs0' = fs
            /\ tool' = "edit_file"
            /\ UNCHANGED <<target, readVars>>
            /\ IF p = EmptyPath THEN fail(ErrInvalidInput)
               ELSE IF read.panic THEN panic
               ELSE IF read.err = Nil THEN enter(fs, 0, <<>>)
               ELSE IF read.err = ErrNotExist /\ n > 0
               THEN IF Len(first.NewContent) = 0 THEN fail(ErrNoContent)
                    ELSE enter(createNewFile(fs, p, first.NewContent[1]), 1,
                               <<[call |-> "createNewFile", counter |-> 0]>>)
               ELSE fail(read.err)

\* EditFile from its entry to the loop: the path check, the read, and the
\* creation of a missing file.  The batch is an input of the call; its
\* operations do not depend on each other, and the model draws an
\* operation when the code first reads it: the first one here, where the
\* code looks at Edits[0], the others in the loop.
EditFileEnter ==
    /\ pc = "idle"
    /\ UNCHANGED agentVars
    /\ \E p \in {EmptyPath, target} \cup UnsafePaths, n \in 0..MaxOps,
          first \in EditInputs :
        LET batch == IF n = 0 THEN <<>> ELSE <<first>>
            read == ReadFile(fs, target, ReadFileInputFor(p))
            enter(f, counter, log) ==
                /\ pc' = "loop"
                /\ fs' = f
                /\ operationCounter' = counter
                /\ lines' = StringsSplit(read.content)
                /\ doc0' = StringsSplit(read.content)
                /\ prevLines' = StringsSplit(read.content)
                /\ writeLog' = log
                /\ last' = IF counter = 0 THEN "loaded" ELSE "created"
                /\ UNCHANGED result
            fail(e) ==
                /\ ReturnErr(e)
                /\ last' = "rejected"
                /\ UNCHANGED <<fs, operationCounter, lines, doc0, prevLines,
                               writeLog>>
            panic ==
                /\ pc' = "panic"
                /\ last' = "panicked"
                /\ UNCHANGED <<fs, operationCounter, lines, doc0, prevLines,
                               writeLog, result>>
        IN  /\ path' = p
            /\ nEdits' = n
            /\ edits' = batch
            /\ fs0' = fs
            /\ tool' = "edit_file"
            /\ UNCHANGED <<target, readVars>>
            /\ IF p = EmptyPath THEN fail(ErrInvalidInput)
               ELSE IF read.panic THEN panic
               ELSE IF read.err = Nil THEN enter(fs, 0, <<>>)
               ELSE IF read.err = ErrNotExist /\ n > 0
                       /\ first.OperationType = AppendToFileOp
               THEN IF Len(first.NewContent) = 0 THEN fail(ErrNoContent)
                    ELSE enter(createNewFile(fs, p, first.NewContent[1]), 1,
                               <<[call |-> "createNewFile", counter |-> 0]>>)
               ELSE fail(read.err)

\* EditFileLoop with each operation resolved against the document as loaded
\* instead of the document the earlier operations left.
EditFileLoopOnLoaded ==
    /\ pc = "loop"
    /\ UNCHANGED agentVars
    /\ operationCounter < nEdits
    /\ \E next \in EditInputs :
        LET known == operationCounter < Len(edits)
            e == IF known THEN edits[operationCounter + 1] ELSE next
            r == Dispatch(doc0, e)
        IN  /\ known => next = e
            /\ edits' = IF known THEN edits ELSE Append(edits, e)
            /\ prevLines' = lines
            /\ IF r.err # Nil
               THEN /\ ReturnErr(r.err)
                    /\ last' = "aborted"
                    /\ UNCHANGED <<operationCounter, lines>>
               ELSE /\ lines' = r.content
                    /\ last' = "applied"
                    /\ operationCounter' = operationCounter + 1
                    /\ UNCHANGED <<pc, result>>
    /\ UNCHANGED <<target, fs, path, nEdits, fs0, doc0, writeLog, tool,
                   readVars>>

\* One iteration of the loop.
EditFileLoop ==
    /\ pc = "loop"
    /\ UNCHANGED agentVars
    /\ operationCounter < nEdits
    /\ \E next \in EditInputs :
        LET known == operationCounter < Len(edits)
            e == IF known THEN edits[operationCounter + 1] ELSE next
            r == Dispatch(lines, e)
        IN  /\ known => next = e
            /\ edits' = IF known THEN edits ELSE Append(edits, e)
            /\ prevLines' = lines
            /\ IF r.err # Nil
               THEN /\ ReturnErr(r.err)
                    /\ last' = "aborted"
                    /\ UNCHANGED <<operationCounter, lines>>
               ELSE /\ lines' = r.content
                    /\ last' = "applied"
                    /\ operationCounter' = operationCounter + 1
                    /\ UNCHANGED <<pc, result>>
    /\ UNCHANGED <<target, fs, path, nEdits, fs0, doc0, writeLog, tool,
                   readVars>>

\* EditFileWrite ending the file with a line separator.
EditFileWriteWithFinalNewline ==
    /\ pc = "loop"
    /\ UNCHANGED agentVars
    /\ operationCounter >= nEdits
    /\ fs' = OsWriteFile(fs, StringsJoin(lines) \o <<NL>>)
    /\ writeLog' = Append(writeLog,
                          [call |-> "WriteFile", counter |-> operationCounter])
    /\ pc' = "done"
    /\ result' = Ok
    /\ last' = "written"
    /\ UNCHANGED <<target, path, nEdits, edits, operationCounter, lines, fs0,
                   doc0, prevLines, tool, readVars>>

\* The loop is over: join the lines, rewrite the file, return "OK".
EditFileWrite ==
    /\ pc = "loop"
    /\ UNCHANGED agentVars
    /\ operationCounter >= nEdits
    /\ fs' = OsWriteFile(fs, StringsJoin(lines))
    /\ writeLog' = Append(writeLog,
                          [call |-> "WriteFile", counter |-> operationCounter])
    /\ pc' = "done"
    /\ result' = Ok
    /\ last' = "written"
    /\ UNCHANGED <<target, path, nEdits, edits, operationCounter, lines, fs0,
                   doc0, prevLines, tool, readVars>>

\* ReadLines, the input does not unmarshal.
ReadLinesBadInput ==
    /\ pc = "idle"
    /\ UNCHANGED agentVars
    /\ ReturnErr(ErrJSON)
    /\ last' = "bad input"
    /\ tool' = "read_lines"
    /\ UNCHANGED <<target, fs, path, fs0, editVars, readVars>>

\* ReadLinesEnter opening the file before it looks at the line numbers.
ReadLinesEnterOpeningFirst ==
    /\ pc = "idle"
    /\ UNCHANGED agentVars
    /\ \E p \in {EmptyPath, target}, s \in LineArgs, e \in LineArgs :
        /\ tool' = "read_lines"
        /\ path' = p
        /\ startLine' = s
        /\ endLine' = e
        /\ fs0' = fs
        /\ IF p = EmptyPath \/ ~fs.exists
           THEN /\ ReturnErr(ErrNotExist)
                /\ last' = "not opened"
                /\ UNCHANGED <<lineNum, window, rest>>
           ELSE IF s < 1 \/ e < s
           THEN /\ ReturnErr(ErrInvalidLines)
                /\ last' = "invalid"
                /\ UNCHANGED <<lineNum, window, rest>>
           ELSE IF s = e
           THEN /\ pc' = "done"
                /\ result' = [ret |-> JsonMarshal(<<>>), err |-> Nil]
                /\ last' = "empty window"
                /\ UNCHANGED <<lineNum, window, rest>>
           ELSE /\ pc' = "scan"
                /\ lineNum' = 1
                /\ window' = <<>>
                /\ rest' = fs.data
                /\ last' = "opened"
                /\ UNCHANGED result
    /\ UNCHANGED <<target, fs, editVars>>

\* ReadLinesEnter taking 0 for a start line.
ReadLinesEnterFromZero ==
    /\ pc = "idle"
    /\ UNCHANGED agentVars
    /\ \E p \in {EmptyPath, target}, s \in LineArgs, e \in LineArgs :
        /\ tool' = "read_lines"
        /\ path' = p
        /\ startLine' = s
        /\ endLine' = e
        /\ fs0' = fs
        /\ IF s < 0 \/ e < s
           THEN /\ ReturnErr(ErrInvalidLines)
                /\ last' = "invalid"
                /\ UNCHANGED <<lineNum, window, rest>>
           ELSE IF s = e
           THEN /\ pc' = "done"
                /\ result' = [ret |-> JsonMarshal(<<>>), err |-> Nil]
                /\ last' = "empty window"
                /\ UNCHANGED <<lineNum, window, rest>>
           ELSE IF p = EmptyPath \/ ~fs.exists
           THEN /\ ReturnErr(ErrNotExist)
                /\ last' = "not opened"
                /\ UNCHANGED <<lineNum, window, rest>>
           ELSE /\ pc' = "scan"
                /\ lineNum' = 1
                /\ window' = <<>>
                /\ rest' = fs.data
                /\ last' = "opened"
                /\ UNCHANGED result
    /\ UNCHANGED <<target, fs, editVars>>

\* ReadLines from its entry to the scan: the check of the line numbers, the
\* return of "[]" for an empty window, and os.Open.
ReadLinesEnter ==
    /\ pc = "idle"
    /\ UNCHANGED agentVars
    /\ \E p \in {EmptyPath, target}, s \in LineArgs, e \in LineArgs :
        /\ tool' = "read_lines"
        /\ path' = p
        /\ startLine' = s
        /\ endLine' = e
        /\ fs0' = fs
        /\ IF s < 1 \/ e < s
           THEN /\ ReturnErr(ErrInvalidLines)
                /\ last' = "invalid"
                /\ UNCHANGED <<lineNum, window, rest>>
           ELSE IF s = e
           THEN /\ pc' = "done"
                /\ result' = [ret |-> JsonMarshal(<<>>), err |-> Nil]
                /\ last' = "empty window"
                /\ UNCHANGED <<lineNum, window, rest>>
           ELSE IF p = EmptyPath \/ ~fs.exists
           THEN /\ ReturnErr(ErrNotExist)
                /\ last' = "not opened"
                /\ UNCHANGED <<lineNum, window, rest>>
           ELSE /\ pc' = "scan"
                /\ lineNum' = 1
                /\ window' = <<>>
                /\ rest' = fs.data
                /\ last' = "opened"
                /\ UNCHANGED result
    /\ UNCHANGED <<target, fs, editVars>>

\* ReadLinesScan collecting the line numbered endLine too.
ReadLinesScanInclusive ==
    /\ pc = "scan"
    /\ UNCHANGED agentVars
    /\ ScanLines(rest).ok
    /\ LET scan == ScanLines(rest)
       IN  /\ window' = IF lineNum >= startLine /\ lineNum <= endLine
                        THEN Append(window, Sprintf(lineNum, scan.token))
                        ELSE window
           /\ rest' = scan.rest
    /\ lineNum' = lineNum + 1
    /\ last' = "scanned"
    /\ UNCHANGED <<target, fs, pc, path, result, fs0, tool, startLine,
                   endLine, editVars>>

\* One iteration of the scan: the scanner has a line, which is tagged and
\* kept when its number is in the window.
ReadLinesScan ==
    /\ pc = "scan"
    /\ UNCHANGED agentVars
    /\ ScanLines(rest).ok
    /\ LET scan == ScanLines(rest)
       IN  /\ window' = IF lineNum >= startLine /\ lineNum < endLine
                        THEN Append(window, Sprintf(lineNum, scan.token))
                        ELSE window
           /\ rest' = scan.rest
    /\ lineNum' = lineNum + 1
    /\ last' = "scanned"
    /\ UNCHANGED <<target, fs, pc, path, result, fs0, tool, startLine,
                   endLine, editVars>>

\* ReadLinesReturn without the check of the start line.
ReadLinesReturnWithoutStartCheck ==
    /\ pc = "scan"
    /\ UNCHANGED agentVars
    /\ ~ScanLines(rest).ok
    /\ pc' = "done"
    /\ IF lineNum < endLine
       THEN result' = Failed(ErrEndBeyond) /\ last' = "end beyond"
       ELSE result' = [ret |-> JsonMarshal(window), err |-> Nil]
            /\ last' = "read"
    /\ UNCHANGED <<target, fs, path, fs0, tool, editVars, readVars>>

\* ReadLinesReturn without the check of the end line.
ReadLinesReturnPartial ==
    /\ pc = "scan"
    /\ UNCHANGED agentVars
    /\ ~ScanLines(rest).ok
    /\ pc' = "done"
    /\ IF lineNum <= startLine
       THEN result' = Failed(ErrStartBeyond) /\ last' = "start beyond"
       ELSE result' = [ret |-> JsonMarshal(window), err |-> Nil]
            /\ last' = "read"
    /\ UNCHANGED <<target, fs, path, fs0, tool, editVars, readVars>>

\* The scan is over: the checks of the window against the number of lines
\* scanned, and the return of the lines marshalled.
ReadLinesReturn ==
    /\ pc = "scan"
    /\ UNCHANGED agentVars
    /\ ~ScanLines(rest).ok
    /\ pc' = "done"
    /\ IF lineNum <= startLine
       THEN result' = Failed(ErrStartBeyond) /\ last' = "start beyond"
       ELSE IF lineNum < endLine
       THEN result' = Failed(ErrEndBeyond) /\ last' = "end beyond"
       ELSE result' = [ret |-> JsonMarshal(window), err |-> Nil]
            /\ last' = "read"
    /\ UNCHANGED <<target, fs, path, fs0, tool, editVars, readVars>>

\* ------------------------------------------------------------------- Run

\* Run's loop reading the user in every iteration.
RunLoopHeadAlwaysReading ==
    /\ runPc = "loop"
    /\ IF TRUE
       THEN \E ok \in BOOLEAN, userInput \in UserInputs :
               IF ~ok
               THEN /\ runPc' = "returned"
                    /\ runErr' = Nil
                    /\ step' = "input exhausted"
                    /\ UNCHANGED conversation
               ELSE /\ conversation' =
                         Append(conversation,
                                UserMessage(<<TextBlock(userInput)>>))
                    /\ runPc' = "infer"
                    /\ step' = "read"
                    /\ UNCHANGED runErr
       ELSE /\ runPc' = "infer"
            /\ step' = "not read"
            /\ UNCHANGED <<conversation, runErr>>
    /\ UNCHANGED <<tools, readUserInput, message, block, toolResults,
                   inferences, calls>>
    /\ UNCHANGED callVars

\* The top of Run's loop: the user is read when readUserInput says so, and
\* Run returns nil when there is no more input.
RunLoopHead ==
    /\ runPc = "loop"
    /\ IF readUserInput
       THEN \E ok \in BOOLEAN, userInput \in UserInputs :
               IF ~ok
               THEN /\ runPc' = "returned"
                    /\ runErr' = Nil
                    /\ step' = "input exhausted"
                    /\ UNCHANGED conversation
               ELSE /\ conversation' =
                         Append(conversation,
                                UserMessage(<<TextBlock(userInput)>>))
                    /\ runPc' = "infer"
                    /\ step' = "read"
                    /\ UNCHANGED runErr
       ELSE /\ runPc' = "infer"
            /\ step' = "not read"
            /\ UNCHANGED <<conversation, runErr>>
    /\ UNCHANGED <<tools, readUserInput, message, block, toolResults,
                   inferences, calls>>
    /\ UNCHANGED callVars

\* runInference and what Run does with its two results.
RunInference ==
    /\ runPc = "infer"
    /\ inferences < MaxInferences
    /\ inferences' = inferences + 1
    /\ \/ /\ runPc' = "returned"
          /\ runErr' = ErrInference
          /\ step' = "inference failed"
          /\ UNCHANGED <<conversation, message, block, toolResults>>
       \/ \E content \in ModelMessages(inferences + 1) :
             /\ message' = content
             /\ conversation' = Append(conversation, AssistantMessage(content))
             /\ toolResults' = <<>>
             /\ block' = 1
             /\ runPc' = "content"
             /\ step' = "inferred"
             /\ UNCHANGED runErr
    /\ UNCHANGED <<tools, readUserInput, calls>>
    /\ UNCHANGED callVars

\* A text block of the message: printed.
RunText ==
    /\ runPc = "content"
    /\ block <= Len(message)
    /\ message[block].Type = "text"
    /\ block' = block + 1
    /\ step' = "printed"
    /\ UNCHANGED <<tools, conversation, readUserInput, runPc, message,
                   toolResults, runErr, inferences, calls>>
    /\ UNCHANGED callVars

\* A tool_use block of the message: executeTool, and the append of its result.
RunExecuteTool ==
    /\ runPc = "content"
    /\ block <= Len(message)
    /\ message[block].Type = "tool_use"
    /\ LET id == message[block].ID
           name == message[block].Name
           found == FindTool(tools, name)
           return(function, outcome, toolResult) ==
               /\ calls' = Append(calls, [ID |-> id, Name |-> name,
                                          Function |-> function,
                                          outcome |-> outcome,
                                          result |-> <<toolResult>>])
               /\ toolResults' = Append(toolResults, toolResult)
               /\ block' = block + 1
               /\ step' = "executed"
               /\ UNCHANGED runPc
       IN  IF found = 0
           THEN return("none", NotCalled,
                       ToolResultBlock(id, "tool not found", TRUE))
           ELSE \E outcome \in FunctionOutcomes(tools[found].Function) :
                   IF outcome.kind = "panic"
                   THEN /\ calls' = Append(calls,
                                [ID |-> id, Name |-> name,
                                 Function |-> tools[found].Function,
                                 outcome |-> outcome, result |-> <<>>])
                        /\ runPc' = "panic"
                        /\ step' = "panicked"
                        /\ UNCHANGED <<toolResults, block>>
                   ELSE return(tools[found].Function, outcome,
                               ToolResultBlock(id, outcome.text,
                                               outcome.kind = "error"))
    /\ UNCHANGED <<tools, conversation, readUserInput, message, runErr,
                   inferences>>
    /\ UNCHANGED callVars

\* After the last block: the results go back to the model, or, when there
\* are none, the user is read next.
RunToolResults ==
    /\ runPc = "content"
    /\ block > Len(message)
    /\ IF Len(toolResults) = 0
       THEN /\ readUserInput' = TRUE
            /\ step' = "no tool used"
            /\ UNCHANGED conversation
       ELSE /\ readUserInput' = FALSE
            /\ conversation' = Append(conversation, UserMessage(toolResults))
            /\ step' = "results sent"
    /\ runPc' = "loop"
    /\ UNCHANGED <<tools, message, block, toolResults, runErr, inferences,
                   calls>>
    /\ UNCHANGED callVars

Next ==
    \/ EditFileBadInput
    \/ EditFileEnter
    \/ EditFileLoop
    \/ EditFileWrite
    \/ ReadLinesBadInput
    \/ ReadLinesEnter
    \/ ReadLinesScan
    \/ ReadLinesReturn

Spec == Init /\ [][Next]_vars

\* A run of the agent from main, or from NewAgent with another registry, in
\* the working directory; what its tools do to the file system is the subject
\* of Spec, and here a tool function is what it ends in.
AgentInit ==
    /\ CallInit
    /\ Dir(target) = <<".">>
    /\ tools \in ToolRegistries
    /\ RunInit

AgentNext ==
    \/ RunLoopHead
    \/ RunInference
    \/ RunText
    \/ RunExecuteTool
    \/ RunToolResults

AgentSpec == AgentInit /\ [][AgentNext]_vars

\* ----------------------------------------------------------------- claims

\* The call has returned.
Returned == pc = "done" /\ tool = "edit_file"

\* The first operation of the batch is a CreateFile: append_to_file with
\* content.
FirstIsCreate ==
    /\ nEdits >= 1
    /\ Len(edits) >= 1
    /\ edits[1].OperationType = AppendToFileOp
    /\ Len(edits[1].NewContent) >= 1

\* C1: failure atomicity.  Whenever EditFile returns an error, the file
\* system is what it was when the call was made: the same bytes in an
\* existing file, and neither file nor parent directory for a missing one.
C1_FailureAtomicity ==
    (Returned /\ result.err # Nil) => fs = fs0

\* C2: creating a file.  For a missing target and the batch [CreateFile(c)],
\* EditFile returns "OK", the parent directory exists afterwards and the
\* file holds exactly c.
C2_CreateFileContent ==
    (Returned /\ path = target /\ ~fs0.exists /\ nEdits = 1 /\ FirstIsCreate)
        => /\ result = Ok
           /\ fs.dir
           /\ fs.exists
           /\ fs.data = edits[1].NewContent[1]

\* The left-to-right fold of the loop's switch over a document.
RECURSIVE FoldEdits(_, _)
FoldEdits(es, doc) ==
    IF Len(es) = 0 THEN doc
    ELSE FoldEdits(Tail(es), Dispatch(doc, Head(es)).content)

\* C3: sequential reinterpretation.  For an existing file, the document in
\* the loop is the fold of the operations applied so far over the document
\* as loaded, each one resolved against the document its predecessors left,
\* and when every operation succeeded the bytes written are the
\* serialization of that fold.
C3_SequentialFold ==
    fs0.exists =>
        /\ pc = "loop" =>
             /\ doc0 = StringsSplit(fs0.data)
             /\ lines = FoldEdits(SubSeq(edits, 1, operationCounter), doc0)
        /\ (Returned /\ result = Ok) =>
             /\ Len(edits) = nEdits
             /\ fs.data = StringsJoin(FoldEdits(edits, StringsSplit(fs0.data)))

\* C3 witness: lines [a, b, c] with [DeleteLine(1), ReplaceLine(1, [B])]:
\* the second operation's line 1 is the original line 2, and [B, c] is
\* written.
C3_Witness ==
    /\ Returned
    /\ result = Ok
    /\ fs0.exists
    /\ fs0.data = <<"a", NL, "b", NL, "c">>
    /\ edits = << Edit(DeleteLineOp, 1, <<>>, <<>>, <<>>, 0),
                  Edit(ReplaceLineOp, 1, << <<"B">> >>, <<>>, <<>>, 0) >>
    /\ fs.data = <<"B", NL, "c">>

\* C4: write ordering.  The target is written at most once in a call, and
\* only when every operation of the batch has been applied: no write
\* precedes the end of the loop.
C4_SingleWriteAfterLoop ==
    /\ Len(writeLog) <= 1
    /\ \A i \in 1..Len(writeLog) : writeLog[i].counter >= nEdits

\* C5: an empty batch is rejected.  With a non-empty path and no operations,
\* EditFile returns an error and does not write the file.
C5_EmptyBatchRejected ==
    (Returned /\ path # EmptyPath /\ nEdits = 0)
        => /\ result.err # Nil
           /\ writeLog = <<>>

\* The last step of the call applied an operation of kind t in the loop:
\* prevLines is the document before it, lines the document after it.
LastEdit == edits[operationCounter]
Applied(t) ==
    /\ last = "applied"
    /\ LastEdit.OperationType = t

\* The last step of the call was an operation of kind t failing in the
\* loop, on the document lines.
FailedEdit == edits[operationCounter + 1]
Aborted(t) ==
    /\ last = "aborted"
    /\ FailedEdit.OperationType = t

\* C6: InsertBefore(n, content) with 1 <= n <= len(doc) and k >= 1 lines of
\* content produces doc[1..n-1] ++ content ++ doc[n..]: the content sits
\* at 0-based index n-1, line n and the lines after it shift down by k.
C6_InsertBeforeContract ==
    (Applied(InsertLineBeforeOp) /\ Len(LastEdit.NewContent) >= 1)
        => LET n == LastEdit.LineNumber
           IN  lines = SubSeq(prevLines, 1, n - 1) \o LastEdit.NewContent
                       \o SubSeq(prevLines, n, Len(prevLines))

\* C7: ReplaceLine(n, content) with 1 <= n <= len(doc) and k >= 1 lines of
\* content succeeds and produces doc[1..n-1] ++ content ++ doc[n+1..]; the
\* length changes by k-1; for k = 1 the length is kept and only line n
\* changes.
C7_ReplaceLine ==
    /\ Aborted(ReplaceLineOp) => FailedEdit.LineNumber \notin 1..Len(lines)
    /\ (Applied(ReplaceLineOp) /\ Len(LastEdit.NewContent) >= 1)
        => LET n == LastEdit.LineNumber
               k == Len(LastEdit.NewContent)
           IN  /\ n \in 1..Len(prevLines)
               /\ lines = SubSeq(prevLines, 1, n - 1) \o LastEdit.NewContent
                          \o SubSeq(prevLines, n + 1, Len(prevLines))
               /\ Len(lines) = Len(prevLines) + k - 1
               /\ k = 1 =>
                    /\ Len(lines) = Len(prevLines)
                    /\ lines[n] = LastEdit.NewContent[1]
                    /\ \A i \in 1..Len(prevLines) :
                         i # n => lines[i] = prevLines[i]

\* C7 witness: line 2 of a three-line document whose last line is the empty
\* line of a final newline is replaced by two lines.
C7_Witness ==
    /\ Applied(ReplaceLineOp)
    /\ LastEdit.LineNumber = 2
    /\ Len(LastEdit.NewContent) = 2
    /\ Len(prevLines) = 3
    /\ prevLines[3] = <<>>
    /\ Len(lines) = 4
    /\ lines[4] = <<>>

\* C8: InsertAfter(n, content) with 1 <= n <= len(doc) and k >= 1 lines of
\* content succeeds and produces doc[1..n] ++ content ++ doc[n+1..]: the
\* content starts at 0-based index n, lines 1..n are unchanged, the length
\* grows by k.
C8_InsertAfter ==
    /\ Aborted(InsertLineAfterOp) => FailedEdit.LineNumber \notin 1..Len(lines)
    /\ (Applied(InsertLineAfterOp) /\ Len(LastEdit.NewContent) >= 1)
        => LET n == LastEdit.LineNumber
               k == Len(LastEdit.NewContent)
           IN  /\ n \in 1..Len(prevLines)
               /\ Len(lines) = Len(prevLines) + k
               /\ \A i \in 1..n : lines[i] = prevLines[i]
               /\ \A i \in 1..k : lines[n + i] = LastEdit.NewContent[i]
               /\ \A i \in (n + 1)..Len(prevLines) : lines[i + k] = prevLines[i]

\* C8 witness: two lines inserted after a line that is not the last one.
C8_Witness ==
    /\ Applied(InsertLineAfterOp)
    /\ Len(LastEdit.NewContent) = 2
    /\ LastEdit.LineNumber < Len(prevLines)

\* Every operation applied so far is DeleteLine(n), on a document loaded
\* from an existing file.
OnlyDeletes(n) ==
    /\ fs0.exists
    /\ operationCounter >= 1
    /\ \A i \in 1..operationCounter :
         /\ edits[i].OperationType = DeleteLineOp
         /\ edits[i].LineNumber = n

\* C9: DeleteLine(n) with 1 <= n <= len(doc) succeeds and removes line n
\* and nothing else, so the length drops by one; DeleteLine(n) issued m
\* times in a batch removes the original lines n, ..., n+m-1.
C9_DeleteLine ==
    /\ Aborted(DeleteLineOp) => FailedEdit.LineNumber \notin 1..Len(lines)
    /\ Applied(DeleteLineOp) =>
         LET n == LastEdit.LineNumber
         IN  /\ n \in 1..Len(prevLines)
             /\ Len(lines) = Len(prevLines) - 1
             /\ \A i \in 1..(n - 1) : lines[i] = prevLines[i]
             /\ \A i \in n..Len(lines) : lines[i] = prevLines[i + 1]
    /\ \A n \in LineNumbers :
         (Applied(DeleteLineOp) /\ OnlyDeletes(n)) =>
            LET m == operationCounter
            IN  /\ n + m - 1 <= Len(doc0)
                /\ Len(lines) = Len(doc0) - m
                /\ \A i \in 1..(n - 1) : lines[i] = doc0[i]
                /\ \A i \in n..Len(lines) : lines[i] = doc0[i + m]

\* C9 witness: DeleteLine(1) twice on [a, b, c] leaves [c].
C9_Witness ==
    /\ Applied(DeleteLineOp)
    /\ OnlyDeletes(1)
    /\ operationCounter = 2
    /\ doc0 = << <<"a">>, <<"b">>, <<"c">> >>
    /\ lines = << <<"c">> >>

\* old occurs in the string s.
Occurs(s, old) == \E i \in 0..Len(s) : OccursAt(s, old, i)

\* s with its first c non-overlapping occurrences of a non-empty old, read
\* left to right, replaced by new; a negative c replaces them all.
RECURSIVE ReplacedLeftToRight(_, _, _, _)
ReplacedLeftToRight(s, old, new, c) ==
    IF c = 0 \/ Len(s) < Len(old) THEN s
    ELSE IF SubSeq(s, 1, Len(old)) = old
    THEN new \o ReplacedLeftToRight(SubSeq(s, Len(old) + 1, Len(s)), old, new,
                                    c - 1)
    ELSE <<Head(s)>> \o ReplacedLeftToRight(Tail(s), old, new, c)

\* The same for the empty old, which occurs before every character and at
\* the end.
RECURSIVE InsertedLeftToRight(_, _, _)
InsertedLeftToRight(s, new, c) ==
    IF c = 0 THEN s
    ELSE IF Len(s) = 0 THEN new
    ELSE new \o <<Head(s)>> \o InsertedLeftToRight(Tail(s), new, c - 1)

\* C10: ReplaceSubstring(n, old, new, count) with a valid n and count # 0
\* succeeds and changes at most line n: the length and every other line are
\* kept; in line n the first count occurrences of old, left to right, are
\* replaced (all of them for count = -1); when old does not occur in line n
\* the document is unchanged.
C10_ReplaceSubstring ==
    /\ Aborted(ReplaceStringInLineOp) =>
         \/ FailedEdit.LineNumber \notin 1..Len(lines)
         \/ FailedEdit.Count = 0
    /\ Applied(ReplaceStringInLineOp) =>
         LET n == LastEdit.LineNumber
             old == LastEdit.OldString
             new == LastEdit.NewString
         IN  /\ n \in 1..Len(prevLines)
             /\ LastEdit.Count # 0
             /\ Len(lines) = Len(prevLines)
             /\ \A i \in 1..Len(prevLines) : i # n => lines[i] = prevLines[i]
             /\ lines[n] = IF Len(old) = 0
                           THEN InsertedLeftToRight(prevLines[n], new,
                                                    LastEdit.Count)
                           ELSE ReplacedLeftToRight(prevLines[n], old, new,
                                                    LastEdit.Count)
             /\ ~Occurs(prevLines[n], old) => lines = prevLines

\* C10 witness: one of the two occurrences of "a" left in a line is
\* replaced, the first one, and the other lines stay.
C10_Witness ==
    /\ Applied(ReplaceStringInLineOp)
    /\ LastEdit.Count = 1
    /\ LastEdit.OldString = <<"a">>
    /\ prevLines[LastEdit.LineNumber] = <<"a", "a", "a">>
    /\ lines[LastEdit.LineNumber] = <<"b", "a", "a">>
    /\ Len(lines) = 3

\* The file system as the call left it on entering the loop: untouched for
\* an existing file, the file created by createNewFile for a missing one.
FsAtLoopEntry ==
    IF fs0.exists THEN fs0
    ELSE createNewFile(fs0, path, edits[1].NewContent[1])

\* The loop has ended in an error: the document was not written.  The call
\* logged no os.WriteFile and the file system is what it was when the loop
\* was entered.
NotWritten ==
    /\ Returned
    /\ \A i \in 1..Len(writeLog) : writeLog[i].call # "WriteFile"
    /\ fs = FsAtLoopEntry

C12_DefaultCountIsOne ==
    /\ (Aborted(ReplaceStringInLineOp) /\ FailedEdit.Count = OmittedCount) =>
         FailedEdit.LineNumber \notin 1..Len(lines)
    /\ (Applied(ReplaceStringInLineOp) /\ LastEdit.Count = OmittedCount) =>
         lines = replaceStringInLine(prevLines, LastEdit.LineNumber,
                                     LastEdit.OldString, LastEdit.NewString,
                                     1).content

\* C13: AppendLines never fails and checks no bounds: whatever the document
\* (one with no line included) and whatever line number the operation
\* carries, the document afterwards is the old document followed by the
\* content.  As the first operation on a file that exists it appends: the
\* file is not recreated, and the bytes written are the old lines followed
\* by the content.
C13_AppendLines ==
    /\ ~Aborted(AppendToFileOp)
    /\ Applied(AppendToFileOp) =>
         LET c == LastEdit.NewContent
             k == Len(prevLines)
         IN  /\ Len(lines) = k + Len(c)
             /\ \A i \in 1..k : lines[i] = prevLines[i]
             /\ \A j \in 1..Len(c) : lines[k + j] = c[j]
    /\ (fs0.exists /\ Applied(AppendToFileOp) /\ operationCounter = 1) =>
         /\ prevLines = StringsSplit(fs0.data)
         /\ fs = fs0
         /\ writeLog = <<>>
    /\ (fs0.exists /\ Returned /\ result = Ok /\ nEdits = 1
        /\ edits[1].OperationType = AppendToFileOp) =>
         /\ fs.data = StringsJoin(StringsSplit(fs0.data) \o edits[1].NewContent)
         /\ \A i \in 1..Len(writeLog) : writeLog[i].call = "WriteFile"

\* C13 witness: content appended to a document with no line, by an
\* operation that carries a line number.
C13_Witness ==
    /\ Applied(AppendToFileOp)
    /\ prevLines = <<>>
    /\ LastEdit.LineNumber = 3
    /\ Len(LastEdit.NewContent) = 2
    /\ lines = LastEdit.NewContent

\* The operations that address a line of the document.
LineOps ==
    {ReplaceLineOp, InsertLineBeforeOp, InsertLineAfterOp, DeleteLineOp,
     ReplaceStringInLineOp}

MissingTarget ==
    /\ pc # "idle"
    /\ path = target
    /\ ~fs0.exists
    /\ nEdits >= 1
    /\ Len(edits) >= 1

\* C15: the target file does not exist.  If the first operation is not an
\* append_to_file the call returns the not-found error of the read; if it
\* is an append_to_file without content (absent, or an empty array) the
\* call returns the no-content error.  In both cases neither the file nor
\* its directory is created.
C15_MissingTarget ==
    /\ (MissingTarget /\ edits[1].OperationType # AppendToFileOp) =>
         /\ Returned
         /\ result = Failed(ErrNotExist)
         /\ fs = fs0
         /\ writeLog = <<>>
    /\ (MissingTarget /\ edits[1].OperationType = AppendToFileOp
        /\ Len(edits[1].NewContent) = 0) =>
         /\ Returned
         /\ result = Failed(ErrNoContent)
         /\ fs = fs0
         /\ writeLog = <<>>

\* C15 witness: an append_to_file without content on a missing file in a
\* missing directory, in a batch of two operations.
C15_Witness ==
    /\ MissingTarget
    /\ last = "rejected"
    /\ nEdits = 2
    /\ edits[1].OperationType = AppendToFileOp
    /\ edits[1].NewContent = <<>>
    /\ result.err = ErrNoContent
    /\ ~fs.dir
    /\ ~fs.exists

\* C16: on a file that exists, when the loop comes to an operation whose
\* type is none of the six known ones, the earlier operations having
\* succeeded, the call fails with the invalid-operation error and the file
\* is not written, whatever the earlier operations did to the lines in
\* memory.  Such an operation is never passed over.
C16_UnknownOperation ==
    /\ ~Applied(UnknownOp)
    /\ (fs0.exists /\ Aborted(UnknownOp)) =>
         /\ result = Failed(ErrInvalidOp)
         /\ Returned
         /\ fs = fs0
         /\ writeLog = <<>>

\* C16 witness: the unknown operation comes second, after an operation
\* that changed the lines in memory.
C16_Witness ==
    /\ fs0.exists
    /\ Aborted(UnknownOp)
    /\ operationCounter = 1
    /\ lines # doc0
    /\ result.err = ErrInvalidOp
    /\ fs = fs0

\* The operations that take lines of content.
ContentOps ==
    {ReplaceLineOp, InsertLineBeforeOp, InsertLineAfterOp, AppendToFileOp}

\* C17: a ReplaceLine, InsertBefore, InsertAfter or AppendLines whose
\* content is the empty list (new_content absent, or an empty array) makes
\* the batch fail; it is never applied, and a ReplaceLine with empty content
\* does not delete its line.
C17_EmptyContentRejected ==
    \A t \in ContentOps :
        ~(Applied(t) /\ LastEdit.NewContent = <<>>)

\* C18: InsertAfter(n, [x]) followed by DeleteLine(n + 1) is the identity,
\* for every document, every n from 1 to its length and every line x: as
\* the two operations of a batch, and as the deletion that would follow
\* any InsertAfter of one line the loop has applied.
C18_InsertAfterThenDelete ==
    /\ (last = "applied" /\ operationCounter = 2
        /\ edits[1].OperationType = InsertLineAfterOp
        /\ Len(edits[1].NewContent) = 1
        /\ edits[2].OperationType = DeleteLineOp
        /\ edits[2].LineNumber = edits[1].LineNumber + 1)
         => lines = doc0
    /\ (Applied(InsertLineAfterOp) /\ Len(LastEdit.NewContent) = 1) =>
         deleteLine(lines, LastEdit.LineNumber + 1)
             = [err |-> Nil, content |-> prevLines]

\* C18 witness: the two operations as a batch on a document of three
\* lines, at line 2.
C18_Witness ==
    /\ last = "applied" /\ operationCounter = 2
    /\ edits[1].OperationType = InsertLineAfterOp
    /\ Len(edits[1].NewContent) = 1
    /\ edits[1].LineNumber = 2
    /\ edits[2].OperationType = DeleteLineOp
    /\ edits[2].LineNumber = 3
    /\ Len(doc0) = 3
    /\ Len(prevLines) = 4
    /\ lines = doc0

\* C19: joining the split of a content gives the content back, for the
\* content of every file read and of every file written; and a call that
\* returns "OK" with the lines as they were loaded leaves the file
\* byte-identical.
C19_SplitJoinRoundTrip ==
    /\ last = "loaded" =>
         /\ lines = StringsSplit(fs0.data)
         /\ StringsJoin(lines) = fs0.data
    /\ (Returned /\ result = Ok) =>
         StringsJoin(StringsSplit(fs.data)) = fs.data
    /\ (Returned /\ result = Ok /\ fs0.exists /\ lines = doc0) =>
         fs = fs0

\* C19 witness: two operations that together leave the lines of a file
\* ending in a newline as they were.
C19_Witness ==
    /\ Returned /\ result = Ok /\ fs0.exists
    /\ operationCounter = 2
    /\ lines = doc0
    /\ prevLines # doc0
    /\ Len(fs0.data) > 0
    /\ fs0.data[Len(fs0.data)] = NL
    /\ fs = fs0

\* The lines a scan of a file's bytes yields, in order.
RECURSIVE ScannedLines(_)
ScannedLines(data) ==
    LET scan == ScanLines(data)
    IN  IF scan.ok THEN <<scan.token>> \o ScannedLines(scan.rest) ELSE <<>>

\* ReadLines has returned.
ReadReturned == pc = "done" /\ tool = "read_lines"

C21_RangeFailures ==
    /\ (tool = "read_lines" /\ pc = "scan") => result = NoResult
    /\ (ReadReturned /\ path = target /\ fs0.exists
        /\ 1 <= startLine /\ startLine < endLine) =>
         LET N == Len(ScannedLines(fs0.data))
         IN  /\ startLine > N => result = Failed(ErrStartBeyond)
             /\ (startLine <= N /\ endLine > N + 1) =>
                  /\ result = Failed(ErrEndBeyond)
                  /\ Len(window) = N - startLine + 1
             /\ (startLine > N \/ endLine > N + 1) =>
                  /\ rest = <<>>
                  /\ lineNum = N + 1
                  /\ result.ret = <<>>
             /\ (startLine = 1 /\ endLine = N + 2) => result.err # Nil

\* C21 witness: the window 1, 5 of a file of three lines: the three lines
\* were collected and the call fails.
C21_Witness ==
    /\ ReadReturned
    /\ fs0.data = <<"a", NL, "b", NL, "c">>
    /\ startLine = 1
    /\ endLine = 5
    /\ Len(window) = 3
    /\ rest = <<>>
    /\ result = Failed(ErrEndBeyond)

C24_ArgumentValidation ==
    (ReadReturned /\ last # "bad input") =>
        /\ (startLine < 1 \/ endLine < startLine) =>
             /\ result = Failed(ErrInvalidLines)
             /\ last = "invalid"
        /\ (1 <= startLine /\ startLine < endLine
            /\ path = target /\ ~fs0.exists) =>
             result = Failed(ErrNotExist)

\* C24 witness: start line 0 on a file that does not exist.
C24_Witness ==
    /\ ReadReturned
    /\ path = target
    /\ ~fs0.exists
    /\ startLine = 0
    /\ endLine = 2
    /\ result = Failed(ErrInvalidLines)

\* The list of lines a new_content on the wire stands for: a string is the
\* list of that one string, an array its elements in order.
Listed(raw) ==
    IF raw.kind = "string" THEN << raw.str >>
    ELSE IF raw.kind = "array" THEN [i \in 1..Len(raw.arr) |-> raw.arr[i]]
    ELSE <<>>

\* The array of one string that a string on the wire corresponds to.
AsArray(raw) == [kind |-> "array", str |-> <<>>, arr |-> << raw.str >>]

\* The operation just applied, with its content as decoded from raw.
LastEditWith(raw) == [LastEdit EXCEPT !.NewContent = UnmarshalJSON(raw)]

\* C25: a content given as the single string x and the same content given
\* as the list [x] are decoded to the same list [x], and the operation
\* applied yields the same document with either; a list of k strings is
\* decoded to k lines in the same order.  Stated where an operation with
\* content has been applied, for every form of content on the wire.
C25_ContentNormalization ==
    \A t \in ContentOps :
        Applied(t) =>
            \A raw \in RawContents :
                /\ Len(UnmarshalJSON(raw)) = Len(Listed(raw))
                /\ \A i \in 1..Len(Listed(raw)) :
                       UnmarshalJSON(raw)[i] = Listed(raw)[i]
                /\ raw.kind = "string" =>
                     UnmarshalJSON(AsArray(raw)) = UnmarshalJSON(raw)
                /\ LastEdit.NewContent = Listed(raw) =>
                     /\ Dispatch(prevLines, LastEditWith(raw)).content = lines
                     /\ raw.kind = "string" =>
                          Dispatch(prevLines, LastEditWith(AsArray(raw)))
                              = Dispatch(prevLines, LastEditWith(raw))

\* C25 witness: a replace_line applied with the one line B, which the wire
\* gives as "B" and as ["B"].
C25_Witness ==
    /\ Applied(ReplaceLineOp)
    /\ LastEdit.NewContent = << <<"B">> >>
    /\ \E r1, r2 \in RawContents :
          /\ r1.kind = "string"
          /\ r2.kind = "array"
          /\ UnmarshalJSON(r1) = LastEdit.NewContent
          /\ UnmarshalJSON(r2) = LastEdit.NewContent
    /\ lines # prevLines

\* The operation just applied has put its content at the 0-based index i
\* of the document before it: i lines, the content, the other lines.
PlacedAt(i) ==
    lines = SubSeq(prevLines, 1, i) \o LastEdit.NewContent
              \o SubSeq(prevLines, i + 1, Len(prevLines))

\* C26, as stated: for every valid n and every content of k >= 2 lines,
\* insert_line_before puts the content at an index strictly below n - 1,
\* and it puts a content at index n - 1 only when k = 1.
C26_StrictlyEarlier ==
    Applied(InsertLineBeforeOp) =>
        LET n == LastEdit.LineNumber
            k == Len(LastEdit.NewContent)
        IN  /\ k >= 2 => \E i \in 0..(n - 2) : PlacedAt(i)
            /\ (k >= 1 /\ PlacedAt(n - 1)) => k = 1

\* C26, amended: insert_line_before puts a content of k >= 1 lines at index
\* max(n - k, 0).  For k >= 2 and n >= 2 that is strictly below n - 1 and
\* not the place the contract names; for k = 1, and for n = 1 with any k
\* (the index is clamped to 0), it is index n - 1.
C26_EarlierUnlessFirstLine ==
    (Applied(InsertLineBeforeOp) /\ Len(LastEdit.NewContent) >= 1) =>
        LET n == LastEdit.LineNumber
            k == Len(LastEdit.NewContent)
        IN  /\ PlacedAt(Max(n - k, 0))
            /\ (k >= 2 /\ n >= 2) =>
                 /\ Max(n - k, 0) < n - 1
                 /\ ~PlacedAt(n - 1)
            /\ (k = 1 \/ n = 1) => PlacedAt(n - 1)

\* C26 witness: two lines inserted before line 1 of a document with lines.
C26_Witness ==
    /\ Applied(InsertLineBeforeOp)
    /\ LastEdit.LineNumber = 1
    /\ Len(LastEdit.NewContent) = 2
    /\ Len(prevLines) >= 2
    /\ PlacedAt(0)

\* C27: the target does not exist and the batch is [CreateFile(c), op2, ...,
\* opk].  In the loop, the lines are those of the one-line document [c]
\* with the operations after the first applied so far, and when every
\* operation has succeeded the file written is the serialization of op2 to
\* opk applied in order to [c]: the initial content is not lost.
C27_EditsAfterCreate ==
    (~fs0.exists /\ path = target /\ FirstIsCreate /\ nEdits >= 2) =>
        LET c == edits[1].NewContent[1]
        IN  /\ pc = "loop" =>
                 lines = FoldEdits(SubSeq(edits, 2, operationCounter), <<c>>)
            /\ (Returned /\ result = Ok) =>
                 fs.data = StringsJoin(FoldEdits(Tail(edits), <<c>>))

\* The operations that add lines and remove none.
AdditiveOps == {InsertLineBeforeOp, InsertLineAfterOp, AppendToFileOp}

\* C28: after a successful insert_line_before, insert_line_after or
\* append_to_file with content of any length, the document has the old
\* length plus the length of the content, and there is a place i such that
\* the first i old lines, the content in its order, and the other old lines
\* follow each other: every old line is kept, in order, and the content is
\* one block.
C28_AdditiveOpsKeepLines ==
    \A t \in AdditiveOps :
        Applied(t) =>
            LET c == LastEdit.NewContent
                k == Len(c)
                m == Len(prevLines)
            IN  /\ Len(lines) = m + k
                /\ \E i \in 0..m :
                      /\ \A j \in 1..i : lines[j] = prevLines[j]
                      /\ \A j \in 1..k : lines[i + j] = c[j]
                      /\ \A j \in (i + 1)..m : lines[j + k] = prevLines[j]

\* C28 witness: two lines inserted before line 1 of three, where the index
\* of the insertion is clamped to 0: the three lines follow the two.
C28_Witness ==
    /\ Applied(InsertLineBeforeOp)
    /\ LastEdit.LineNumber = 1
    /\ Len(LastEdit.NewContent) = 2
    /\ Len(prevLines) = 3
    /\ Len(lines) = 5
    /\ \A j \in 1..3 : lines[j + 2] = prevLines[j]

\* C29: reader and editor number the lines of a file alike.  The document
\* EditFile loads from a file has as many lines as a scan of the same file
\* by ReadLines yields, so that a line number is in range for the one
\* exactly when it is for the other, and line n of the document is the text
\* ReadLines tags as line n; for empty files and files that end in a
\* newline too.
C29_SameLineNumbering ==
    last = "loaded" =>
        LET scanned == ScannedLines(fs0.data)
        IN  /\ Len(lines) = Len(scanned)
            /\ \A n \in 1..Len(scanned) : lines[n] = scanned[n]

\* C30: after every successful batch, loading the file written (splitting
\* its bytes on the newline) yields the lines the batch ended with, for
\* every final document, the one with no line included.
C30_PersistedIsInMemory ==
    (Returned /\ result = Ok) => StringsSplit(fs.data) = lines

\* C31: for every non-empty path and every batch, EditFile ends by returning
\* "OK" or an error to its caller: loading the file never panics.
C31_AlwaysReturns ==
    (tool = "edit_file" /\ path # EmptyPath) => pc # "panic"

\* ------------------------------------------------------------ claims: Run

Roles(conv) == [i \in 1..Len(conv) |-> conv[i].Role]

\* A user message made of what the user typed.
IsTyped(m) ==
    /\ m.Role = "user"
    /\ \E userInput \in UserInputs : m.Content = <<TextBlock(userInput)>>

\* A user message made of tool results, one at least.
IsResults(m) ==
    /\ m.Role = "user"
    /\ Len(m.Content) > 0
    /\ \A i \in 1..Len(m.Content) : m.Content[i].Type = "tool_result"

\* C32: the conversation Run passes to runInference is not empty, starts with
\* a user message, alternates strictly between user and assistant messages,
\* and ends with a user message: typed input or a batch of tool results.
C32_ConversationAlternates ==
    /\ \A i \in 1..Len(conversation) :
          conversation[i].Role = IF i % 2 = 1 THEN "user" ELSE "assistant"
    /\ runPc = "infer" =>
          /\ Len(conversation) > 0
          /\ Len(conversation) % 2 = 1
          /\ \/ IsTyped(conversation[Len(conversation)])
             \/ IsResults(conversation[Len(conversation)])

\* The second inference is about to be made on the results of two tools.
C32_Witness ==
    /\ runPc = "infer"
    /\ Len(conversation) = 3
    /\ IsResults(conversation[3])
    /\ Len(conversation[3].Content) = 2

\* The IDs of the tool_use blocks of a content, in block order, and the IDs
\* the tool results of a content carry, in order.
RECURSIVE UseIDs(_)
UseIDs(content) ==
    IF content = <<>> THEN <<>>
    ELSE (IF Head(content).Type = "tool_use" THEN <<Head(content).ID>>
          ELSE <<>>) \o UseIDs(Tail(content))

ResultIDs(content) == [i \in 1..Len(content) |-> content[i].ToolUseID]

\* Every call of executeTool has given one result, with the ID of its block.
EveryCallYieldsResult ==
    \A i \in 1..Len(calls) :
        /\ Len(calls[i].result) = 1
        /\ calls[i].result[1].Type = "tool_result"
        /\ calls[i].result[1].ToolUseID = calls[i].ID

\* The tool_use blocks met so far were executed once each, in block order.
ExecutedOnceInOrder ==
    LET met == IF runPc \in {"content", "panic"}
               THEN UseIDs(SubSeq(message, 1,
                                  IF runPc = "panic" THEN block ELSE block - 1))
               ELSE <<>>
        sent == {i \in 1..Len(conversation) :
                    /\ conversation[i].Role = "assistant"
                    /\ (i < Len(conversation) \/ runPc \in {"loop", "returned"})}
        RECURSIVE Before(_)
        Before(i) ==
            IF i > Len(conversation) THEN <<>>
            ELSE (IF i \in sent THEN UseIDs(conversation[i].Content) ELSE <<>>)
                 \o Before(i + 1)
    IN  [i \in 1..Len(calls) |-> calls[i].ID] = Before(1) \o met

\* The results of a message go back in one user message, in block order,
\* right after it; a message without tool_use is followed by typed input.
ResultsAnswerUses ==
    /\ \A i \in 1..(Len(conversation) - 1) :
          conversation[i].Role = "assistant" =>
              IF UseIDs(conversation[i].Content) # <<>>
              THEN /\ IsResults(conversation[i + 1])
                   /\ ResultIDs(conversation[i + 1].Content) =
                          UseIDs(conversation[i].Content)
              ELSE IsTyped(conversation[i + 1])
    /\ runPc = "content" =>
          ResultIDs(toolResults) = UseIDs(SubSeq(message, 1, block - 1))

\* After a message, the user is read exactly when it had no tool_use block.
ReadIffNoToolUse ==
    (runPc = "loop" /\ inferences > 0) =>
        (readUserInput <=> UseIDs(message) = <<>>)

\* Run returns nil at the end of the input and the error of a failed
\* inference, and returns in no other way.
ReturnsOnlyWhenDone ==
    /\ runPc = "returned" =>
          \/ step = "input exhausted" /\ runErr = Nil
          \/ step = "inference failed" /\ runErr = ErrInference
    /\ runPc # "returned" => runErr = "none"

\* C33: every tool_use block of a model message is executed exactly once and
\* yields exactly one tool result carrying its ID; the results go back in
\* block order in one user message and the next inference is made without
\* reading the user; the user is read again exactly when the last model
\* message had no tool_use block; Run returns only at the end of the input
\* (nil) or on a failed inference (its error).
C33_ToolResultProtocol ==
    /\ EveryCallYieldsResult
    /\ ExecutedOnceInOrder
    /\ ResultsAnswerUses
    /\ ReadIffNoToolUse
    /\ ReturnsOnlyWhenDone

\* C34: executeTool calls the function of the first registered tool of the
\* requested name and no other function; when no tool has the name it calls
\* no function and its result is "tool not found", flagged as an error; when
\* the function returns an error the result carries the error's text and is
\* flagged, and otherwise it carries the response and is not flagged.
C34_ToolDispatch ==
    /\ \A i \in 1..Len(calls) :
          LET call == calls[i]
              named == {k \in 1..Len(tools) : tools[k].Name = call.Name}
              first == CHOOSE k \in named : \A j \in named : k <= j
          IN  IF named = {}
              THEN /\ call.Function = "none"
                   /\ call.outcome = NotCalled
                   /\ call.result =
                          <<ToolResultBlock(call.ID, "tool not found", TRUE)>>
              ELSE /\ call.Function = tools[first].Function
                   /\ call.outcome.kind = "error" =>
                          call.result =
                              <<ToolResultBlock(call.ID, call.outcome.text, TRUE)>>
                   /\ call.outcome.kind = "response" =>
                          call.result =
                              <<ToolResultBlock(call.ID, call.outcome.text, FALSE)>>
                   /\ call.outcome.kind \in {"error", "response", "panic"}
    /\ step = "executed" =>
          <<toolResults[Len(toolResults)]>> = calls[Len(calls)].result

\* With a name registered twice: a call whose function returned an error,
\* then a call of a name no tool has.
C34_Witness ==
    /\ tools = ShadowingTools
    /\ Len(calls) = 2
    /\ calls[1].Name = "read_lines" /\ calls[1].outcome.kind = "error"
    /\ calls[2].Name = "write_file"

====
